---- MODULE Spec2Model ----
(***************************************************************************)
(* Model of package root (Konstantin8105/root): the guarded bisection      *)
(* root finder Find(f, minX, maxX) of root.go.                             *)
(*                                                                         *)
(* Numbers.  An x-coordinate is an integer of the grid -MaxX..MaxX: a      *)
(* real number in fixed point, so the midpoint xLeft+(xRigth-xLeft)/2.0    *)
(* is rounded once the bracket is one grid unit wide, as a float64         *)
(* midpoint is rounded once the bracket is one ulp wide.  A y-value is a   *)
(* float64 reduced to what Find reads of it: its sign bit, whether it is   *)
(* NaN or infinite, and its magnitude.  Precision is the rational          *)
(* PrecNum / PrecDen in grid units.                                        *)
(*                                                                         *)
(* The evaluator f is the caller's: each call returns a value, returns an  *)
(* error, or panics.  When pure is TRUE the evaluator returns for an x     *)
(* the outcome it returned before at that x (fmemo), otherwise it may      *)
(* answer differently at every call.                                       *)
(***************************************************************************)
EXTENDS Integers, Sequences, FiniteSets, TLC

\* ------------------------------------------------------------------ bounds
MaxX == 2
MaxY == 2
MaxIterBound == 3
\* the largest bound of the invocations run in parallel
ParMax == 1

\* Precision, in grid units: PrecNum / PrecDen
PrecNum == 3
PrecDen == 2

VARIABLES
    MaxIteration,   \* package variable MaxIteration, read at call time
    pure,           \* whether the evaluator is a function of x alone
    fmemo,          \* outcomes the pure evaluator has given, by x
    order,          \* "single": one invocation; "swapped": Find(f,a,b) then Find(f,b,a);
                    \* "parallel": two invocations in parallel
    inv             \* the invocations of Find, by id: locals, position, result

vars == <<MaxIteration, pure, fmemo, order, inv>>

\* ------------------------------------------------------------------ values
X == (0 - MaxX)..MaxX

Num(neg, mag) == [kind |-> "num", neg |-> neg, mag |-> mag]
Zero == Num(FALSE, 0)
YVals ==
    {Num(n, m) : n \in BOOLEAN, m \in 0..MaxY}
        \cup {[kind |-> k, neg |-> n, mag |-> 0] : k \in {"inf", "nan"}, n \in BOOLEAN}

\* what one call of the evaluator can do: return (y, nil), return (_, err), panic
Outcomes ==
    {[panic |-> FALSE, fail |-> FALSE, y |-> y] : y \in YVals}
        \cup {[panic |-> FALSE, fail |-> TRUE, y |-> Zero],
              [panic |-> TRUE, fail |-> FALSE, y |-> Zero]}

NilErr == [cls |-> "nil", Type |-> "none"]
\* an error value made by the evaluator, returned as it is
EvalErr == [cls |-> "evaluator", Type |-> "none"]
ErrType == {"MaximalIteration", "InternalErr", "NotValidValue", "Recovery"}
ErrorFind(t) == [cls |-> "ErrorFind", Type |-> t]

\* ------------------------------------------------------------------ math
Abs(n) == IF n < 0 THEN 0 - n ELSE n

Signbit(y) == y.neg
IsNaN(y) == y.kind = "nan"
IsInf(y) == y.kind = "inf"

\* math.Abs(float64(y)) < prec
AbsLessPrec(y) == y.kind = "num" /\ y.mag * PrecDen < PrecNum

\* d / 2.0 for a grid difference d, rounded toward zero
Half(d) == IF d >= 0 THEN d \div 2 ELSE 0 - ((0 - d) \div 2)

middle(xLeft, xRigth) == xLeft + Half(xRigth - xLeft)

\* the width test of the convergence test: absolute when xLeft == 0,
\* relative to xLeft otherwise
WidthLessPrec(xLeft, xRigth) ==
    IF xLeft = 0
    THEN Abs(xRigth - xLeft) * PrecDen < PrecNum
    ELSE Abs(xRigth - xLeft) * PrecDen < PrecNum * Abs(xLeft)

\* a convergence test that forgets the value at the midpoint
ConvergedWidthOnly(s) == WidthLessPrec(s.xLeft, s.xRigth)

Converged(s) == AbsLessPrec(s.yRoot) /\ WidthLessPrec(s.xLeft, s.xRigth)

\* ------------------------------------------------------------------ Find
\* the locals of an invocation Find(f, a, b) at entry: Go zero values; a and b
\* keep the arguments as the caller passed them
Entry(a, b) ==
    [pc |-> "start", a |-> a, b |-> b, minX |-> a, maxX |-> b,
     xLeft |-> 0, xRigth |-> 0, xRoot |-> 0,
     yLeft |-> Zero, yRoot |-> Zero, yRigth |-> Zero,
     errLeft |-> NilErr, errRoot |-> NilErr, errRigth |-> NilErr,
     iter |-> 0, root |-> 0, err |-> NilErr,
     calls |-> <<>>, ret |-> "none"]

\* bounds taken in the order given
bordersAsGiven(minX, maxX) == <<minX, maxX>>

\* "replace borders": the bounds in the order low, high
borders(minX, maxX) == IF minX > maxX THEN <<maxX, minX>> ELSE <<minX, maxX>>

\* "preparing variables", before the first evaluation
prepare(s) ==
    LET b == borders(s.minX, s.maxX) IN
    [s EXCEPT !.minX = b[1], !.maxX = b[2],
              !.xLeft = b[1], !.xRigth = b[2],
              !.xRoot = middle(b[1], b[2]),
              !.pc = "evalLeft"]

\* return: the invocation ends at the return statement named by where
return(s, where) == [s EXCEPT !.pc = "done", !.ret = where]

\* a deferred function that recovers the panic and leaves err as it was
recoverSilent(s) == return(s, "recover")

\* the deferred function: a panic of the evaluator becomes the error
recover(s) == return([s EXCEPT !.err = ErrorFind("Recovery")], "recover")

called(s, x, o) == [s EXCEPT !.calls = Append(@, [x |-> x, out |-> o])]

errOf(o) == IF o.fail THEN EvalErr ELSE NilErr

\* a check that leaves errRoot out of the list
firstErrorEnds(s) == IF s.errLeft # NilErr THEN s.errLeft ELSE s.errRigth

\* the first error of []error{errLeft, errRigth, errRoot}
firstError(s) ==
    IF s.errLeft # NilErr THEN s.errLeft
    ELSE IF s.errRigth # NilErr THEN s.errRigth
    ELSE s.errRoot

\* endpoint exits that look at the right endpoint first
checkErrorsRigthFirst(s) ==
    IF firstError(s) # NilErr
    THEN return([s EXCEPT !.err = firstError(s)], "initialError")
    ELSE IF AbsLessPrec(s.yRigth)
    THEN [s EXCEPT !.root = s.xRigth, !.pc = "confirm", !.ret = "rigth"]
    ELSE IF AbsLessPrec(s.yLeft)
    THEN [s EXCEPT !.root = s.xLeft, !.pc = "confirm", !.ret = "left"]
    ELSE [s EXCEPT !.iter = 0, !.pc = "loop"]

\* "check errors" and the two endpoint exits
checkErrors(s) ==
    IF firstError(s) # NilErr
    THEN return([s EXCEPT !.err = firstError(s)], "initialError")
    ELSE IF AbsLessPrec(s.yLeft)
    THEN [s EXCEPT !.root = s.xLeft, !.pc = "confirm", !.ret = "left"]
    ELSE IF AbsLessPrec(s.yRigth)
    THEN [s EXCEPT !.root = s.xRigth, !.pc = "confirm", !.ret = "rigth"]
    ELSE [s EXCEPT !.iter = 0, !.pc = "loop"]

\* a cap that allows one iteration more
tooManyLate(iter, maxIter) == iter > maxIter

\* the head of the loop: "check max iteration"
tooMany(iter, maxIter) == iter >= maxIter

\* a halving step that never reports a lost bracket
halveNoError(s) ==
    IF Signbit(s.yLeft) # Signbit(s.yRoot)
    THEN [s EXCEPT !.xRigth = s.xRoot, !.yRigth = s.yRigth]
    ELSE [s EXCEPT !.xLeft = s.xRoot, !.yLeft = s.yRoot]

\* a halving step whose left update takes the value of the right endpoint
halveWrongLeft(s) ==
    IF Signbit(s.yLeft) # Signbit(s.yRoot)
    THEN [s EXCEPT !.xRigth = s.xRoot, !.yRigth = s.yRigth]
    ELSE IF Signbit(s.yRoot) # Signbit(s.yRigth)
    THEN [s EXCEPT !.xLeft = s.xRoot, !.yLeft = s.yRigth]
    ELSE return([s EXCEPT !.err = ErrorFind("InternalErr")], "noRoot")

\* the halving step: the sign comparison and the new bracket, or no root
halve(s) ==
    IF Signbit(s.yLeft) # Signbit(s.yRoot)
    THEN [s EXCEPT !.xRigth = s.xRoot, !.yRigth = s.yRigth]
    ELSE IF Signbit(s.yRoot) # Signbit(s.yRigth)
    THEN [s EXCEPT !.xLeft = s.xRoot, !.yLeft = s.yRoot]
    ELSE return([s EXCEPT !.err = ErrorFind("InternalErr")], "noRoot")

\* one pass of the loop body up to "preparing next middle point"
iteration(s, maxIter) ==
    IF tooMany(s.iter, maxIter)
    THEN return([s EXCEPT !.err = ErrorFind("MaximalIteration")], "tooMany")
    ELSE IF Converged(s)
    THEN [s EXCEPT !.root = s.xRoot, !.pc = "confirm", !.ret = "converged"]
    ELSE LET h == halve(s) IN
         IF h.pc = "done" THEN h
         ELSE [h EXCEPT !.xRoot = middle(h.xLeft, h.xRigth), !.pc = "evalMid"]

\* x of the grid is never NaN or infinite
XIsNaN(x) == FALSE
XIsInf(x) == FALSE

\* a loop whose counter is never incremented
midpointNoCount(s, o) ==
    LET t == [s EXCEPT !.yRoot = o.y, !.errRoot = errOf(o)] IN
    IF t.errRoot # NilErr
    THEN return([t EXCEPT !.err = ErrorFind("InternalErr")], "midError")
    ELSE IF XIsNaN(t.xRoot) \/ IsNaN(t.yRoot) \/ XIsInf(t.xRoot) \/ IsInf(t.yRoot)
    THEN return([t EXCEPT !.err = ErrorFind("NotValidValue")], "notValid")
    ELSE [t EXCEPT !.pc = "loop"]

\* after yRoot, errRoot = f(xRoot) in the loop: the error and the numeric guard
midpoint(s, o) ==
    LET t == [s EXCEPT !.yRoot = o.y, !.errRoot = errOf(o)] IN
    IF t.errRoot # NilErr
    THEN return([t EXCEPT !.err = ErrorFind("InternalErr")], "midError")
    ELSE IF XIsNaN(t.xRoot) \/ IsNaN(t.yRoot) \/ XIsInf(t.xRoot) \/ IsInf(t.yRoot)
    THEN return([t EXCEPT !.err = ErrorFind("NotValidValue")], "notValid")
    ELSE [t EXCEPT !.iter = @ + 1, !.pc = "loop"]

\* a confirmatory call whose error is dropped
confirmDrop(s, o) == [s EXCEPT !.pc = "done"]

\* _, err = f(F64(root)); return
confirm(s, o) == [s EXCEPT !.err = errOf(o), !.pc = "done"]

\* ------------------------------------------------------------------ evaluator
\* o is what a call of f at x does
Answers(x, o) ==
    /\ o \in Outcomes
    /\ (pure /\ x \in DOMAIN fmemo) => o = fmemo[x]

Remember(x, o) ==
    fmemo' = IF pure /\ x \notin DOMAIN fmemo THEN (x :> o) @@ fmemo ELSE fmemo

\* ------------------------------------------------------------------ actions
\* invocation p may take a step: in order "swapped" the second call is made
\* after the first has returned, in order "parallel" the calls run side by side
Runs(p) == order = "parallel" \/ \A q \in DOMAIN inv : q < p => inv[q].pc = "done"

Set(p, s) == inv' = [inv EXCEPT ![p] = s]

Prepare(p) ==
    /\ inv[p].pc = "start" /\ Runs(p)
    /\ Set(p, prepare(inv[p]))
    /\ UNCHANGED <<MaxIteration, pure, fmemo, order>>

\* s after the call f(x) with outcome o, where onReturn is s after a return
Call(p, x, o, onReturn) ==
    /\ Answers(x, o)
    /\ Remember(x, o)
    /\ Set(p, IF o.panic THEN recover(called(inv[p], x, o)) ELSE onReturn)
    /\ UNCHANGED <<MaxIteration, pure, order>>

EvalLeft(p) ==
    /\ inv[p].pc = "evalLeft"
    /\ \E o \in Outcomes :
         LET s == called(inv[p], inv[p].xLeft, o) IN
         Call(p, inv[p].xLeft, o,
              [s EXCEPT !.yLeft = o.y, !.errLeft = errOf(o), !.pc = "evalRoot"])

EvalRoot(p) ==
    /\ inv[p].pc = "evalRoot"
    /\ \E o \in Outcomes :
         LET s == called(inv[p], inv[p].xRoot, o) IN
         Call(p, inv[p].xRoot, o,
              [s EXCEPT !.yRoot = o.y, !.errRoot = errOf(o), !.pc = "evalRigth"])

\* the third evaluation, then "check errors" and the endpoint exits
EvalRigth(p) ==
    /\ inv[p].pc = "evalRigth"
    /\ \E o \in Outcomes :
         LET s == called(inv[p], inv[p].xRigth, o) IN
         Call(p, inv[p].xRigth, o,
              checkErrors([s EXCEPT !.yRigth = o.y, !.errRigth = errOf(o)]))

\* a loop that counts its iterations down in the package variable
IterateShared(p) ==
    /\ inv[p].pc = "loop"
    /\ Set(p, iteration(inv[p], MaxIteration))
    /\ MaxIteration' = IF MaxIteration > 0 THEN MaxIteration - 1 ELSE 0
    /\ UNCHANGED <<pure, fmemo, order>>

Iterate(p) ==
    /\ inv[p].pc = "loop"
    /\ Set(p, iteration(inv[p], MaxIteration))
    /\ UNCHANGED <<MaxIteration, pure, fmemo, order>>

EvalMid(p) ==
    /\ inv[p].pc = "evalMid"
    /\ \E o \in Outcomes :
         LET s == called(inv[p], inv[p].xRoot, o) IN
         Call(p, inv[p].xRoot, o, midpoint(s, o))

Confirm(p) ==
    /\ inv[p].pc = "confirm"
    /\ \E o \in Outcomes :
         LET s == called(inv[p], inv[p].root, o) IN
         Call(p, inv[p].root, o, confirm(s, o))

Step(p) ==
    \/ Prepare(p)
    \/ EvalLeft(p)
    \/ EvalRoot(p)
    \/ EvalRigth(p)
    \/ Iterate(p)
    \/ EvalMid(p)
    \/ Confirm(p)

Next == \E p \in DOMAIN inv : Step(p)

\* one invocation Find(f, a, b), any evaluator
Init ==
    /\ MaxIteration \in 0..MaxIterBound
    /\ pure \in BOOLEAN
    /\ fmemo = <<>>
    /\ order = "single"
    /\ \E a \in X, b \in X : inv = (1 :> Entry(a, b))

Spec == Init /\ [][Next]_vars

\* one invocation Find(f, a, b), pure evaluator
InitPure ==
    /\ MaxIteration \in 0..MaxIterBound
    /\ pure = TRUE
    /\ fmemo = <<>>
    /\ order = "single"
    /\ \E a \in X, b \in X : inv = (1 :> Entry(a, b))

SpecPure == InitPure /\ [][Next]_vars

\* Find(f, a, b), then Find(f, b, a) with the same pure evaluator
InitOrder ==
    /\ MaxIteration \in 0..MaxIterBound
    /\ pure = TRUE
    /\ fmemo = <<>>
    /\ order = "swapped"
    /\ \E a \in X, b \in X : inv = (1 :> Entry(a, b)) @@ (2 :> Entry(b, a))

SpecOrder == InitOrder /\ [][Next]_vars

\* Find(f, a, ParMax) and Find(f, ParMax, -ParMax) in parallel, with the same pure
\* (reentrant) evaluator; each step of an invocation is one step of its
\* goroutine
InitPar ==
    /\ MaxIteration \in 0..MaxIterBound
    /\ pure = TRUE
    /\ fmemo = <<>>
    /\ order = "parallel"
    /\ \E a \in (0 - ParMax)..ParMax :
          inv = (1 :> Entry(a, ParMax)) @@ (2 :> Entry(ParMax, 0 - ParMax))

SpecPar == InitPar /\ [][Next]_vars

TypeOK ==
    /\ MaxIteration \in 0..MaxIterBound
    /\ pure \in BOOLEAN
    /\ \A p \in DOMAIN inv :
         /\ inv[p].xLeft \in X /\ inv[p].xRigth \in X /\ inv[p].xRoot \in X
         /\ inv[p].iter \in 0..MaxIterBound
         /\ inv[p].err \in {NilErr, EvalErr} \cup {ErrorFind(t) : t \in ErrType}

\* ------------------------------------------------------------------ claims
Done(p) == inv[p].pc = "done"
Last(q) == q[Len(q)]
Lo(s) == IF s.a > s.b THEN s.b ELSE s.a
Hi(s) == IF s.a > s.b THEN s.a ELSE s.b
\* some call of the invocation panicked / returned an error
Panicked(s) == \E i \in 1..Len(s.calls) : s.calls[i].out.panic
Failed(s) == \E i \in 1..Len(s.calls) : s.calls[i].out.fail

\* C1: with a pure evaluator, a root returned with a nil error lies between
\* the normalized bounds and the evaluator's value there is below Precision
\* in magnitude, at the endpoint exits and at the convergence exit.
C1_RootInBoundsAndPrecise ==
    \A p \in DOMAIN inv :
        LET s == inv[p] IN
        (pure /\ Done(p) /\ s.err = NilErr) =>
            /\ Lo(s) <= s.root /\ s.root <= Hi(s)
            /\ s.root \in DOMAIN fmemo
            /\ ~fmemo[s.root].fail /\ ~fmemo[s.root].panic
            /\ AbsLessPrec(fmemo[s.root].y)

\* a root found by convergence strictly inside bounds given in reverse order
C1_Witness ==
    LET s == inv[1] IN
    /\ pure /\ Done(1) /\ s.err = NilErr /\ s.ret = "converged"
    /\ s.a > s.b /\ s.b < s.root /\ s.root < s.a /\ s.iter >= 1

\* C2: a panic of the evaluator at any call ends Find with the error
\* ErrorFind{Recovery}; the panicking call is the last one and Find returns.
C2_PanicBecomesRecovery ==
    \A p \in DOMAIN inv :
        LET s == inv[p] IN
        Panicked(s) =>
            /\ Done(p)
            /\ s.err = ErrorFind("Recovery")
            /\ Last(s.calls).out.panic
            /\ \A i \in 1..(Len(s.calls) - 1) : ~s.calls[i].out.panic

\* a panic at a midpoint evaluated in the loop
C2_Witness ==
    LET s == inv[1] IN
    /\ Done(1) /\ Len(s.calls) > 3 /\ Last(s.calls).out.panic
    /\ s.ret = "recover" /\ s.root = 0

\* C3: when some call of the evaluator returned an error, Find returns a
\* non-nil error.
C3_FailureNotSwallowed ==
    \A p \in DOMAIN inv :
        LET s == inv[p] IN
        (Done(p) /\ Failed(s)) => s.err # NilErr

\* the evaluator failed at the initial midpoint only, where the values at the
\* endpoints alone would have ended the search with a root
C3_Witness ==
    LET s == inv[1] IN
    /\ Done(1) /\ Len(s.calls) = 3
    /\ ~s.calls[1].out.fail /\ s.calls[2].out.fail /\ ~s.calls[3].out.fail
    /\ AbsLessPrec(s.yLeft)
    /\ s.err # NilErr

\* the three initial evaluations were made and returned values
Sampled(s) ==
    /\ Len(s.calls) >= 3
    /\ \A i \in 1..3 : ~s.calls[i].out.fail /\ ~s.calls[i].out.panic
Y0(s, i) == s.calls[i].out.y
\* |y| >= Precision
AbsGeqPrec(y) == y.kind = "inf" \/ (y.kind = "num" /\ y.mag * PrecDen >= PrecNum)
\* the initial midpoint passes the convergence test
ConvergedAtOnce(s) ==
    AbsLessPrec(Y0(s, 2)) /\ WidthLessPrec(s.calls[1].x, s.calls[3].x)
\* never-failing evaluator, one sign bit at the three initial points, both
\* endpoint values at least Precision, MaxIteration >= 1
NoSignChange(s) ==
    /\ Sampled(s) /\ ~Failed(s) /\ ~Panicked(s)
    /\ Signbit(Y0(s, 1)) = Signbit(Y0(s, 2)) /\ Signbit(Y0(s, 2)) = Signbit(Y0(s, 3))
    /\ AbsGeqPrec(Y0(s, 1)) /\ AbsGeqPrec(Y0(s, 3))
    /\ MaxIteration >= 1

\* C4 as stated: with no sign change among the three initial values Find
\* returns ErrorFind{InternalErr} after exactly three evaluations.
C4_Original ==
    \A p \in DOMAIN inv :
        LET s == inv[p] IN
        (Done(p) /\ NoSignChange(s)) =>
            s.err = ErrorFind("InternalErr") /\ Len(s.calls) = 3

\* C4 amended: with no sign change among the three initial values Find
\* returns ErrorFind{InternalErr} after exactly three evaluations, unless the
\* initial midpoint passes the convergence test; then it returns the midpoint
\* as root after a fourth, confirmatory evaluation.
C4_NoRootUnlessConverged ==
    \A p \in DOMAIN inv :
        LET s == inv[p] IN
        (Done(p) /\ NoSignChange(s)) =>
            IF ConvergedAtOnce(s)
            THEN s.err = NilErr /\ s.root = s.calls[2].x /\ Len(s.calls) = 4
            ELSE s.err = ErrorFind("InternalErr") /\ Len(s.calls) = 3
                 /\ s.ret = "noRoot"

\* 2x+5 over distinct bounds: positive values, no root reported
C4_Witness ==
    LET s == inv[1] IN
    /\ Done(1) /\ NoSignChange(s) /\ ~ConvergedAtOnce(s)
    /\ s.a < s.b /\ ~Signbit(Y0(s, 1)) /\ Y0(s, 2).kind = "num"
    /\ s.err = ErrorFind("InternalErr")

\* every value the pure evaluator has given is a finite number
FiniteSoFar == \A x \in DOMAIN fmemo :
    ~fmemo[x].fail /\ ~fmemo[x].panic /\ fmemo[x].y.kind = "num"
\* the values at the normalized endpoints differ in sign bit
Bracketed(s) ==
    /\ Sampled(s) /\ Lo(s) \in DOMAIN fmemo /\ Hi(s) \in DOMAIN fmemo
    /\ Signbit(fmemo[Lo(s)].y) # Signbit(fmemo[Hi(s)].y)

\* C5: for a pure, never-failing, finite-valued evaluator whose values at the
\* normalized endpoints differ in sign bit, Find never returns "No root"; in
\* the loop the evaluator's values at xLeft and xRigth differ in sign bit and
\* the bracket stays inside the bounds; the call ends in a root or in
\* MaximalIteration.
C5_BracketKept ==
    \A p \in DOMAIN inv :
        LET s == inv[p] IN
        (pure /\ FiniteSoFar /\ Bracketed(s)) =>
            /\ s.ret # "noRoot"
            /\ s.pc \in {"loop", "evalMid"} =>
                 /\ s.xLeft \in DOMAIN fmemo /\ s.xRigth \in DOMAIN fmemo
                 /\ Signbit(fmemo[s.xLeft].y) # Signbit(fmemo[s.xRigth].y)
                 /\ Lo(s) <= s.xLeft /\ s.xLeft <= s.xRigth /\ s.xRigth <= Hi(s)
            /\ Done(p) => s.err \in {NilErr, ErrorFind("MaximalIteration")}

\* both endpoints of the bracket were replaced by midpoints
C5_Witness ==
    LET s == inv[1] IN
    /\ pure /\ FiniteSoFar /\ Bracketed(s)
    /\ s.pc = "evalMid" /\ Lo(s) < s.xLeft /\ s.xRigth < Hi(s)

\* the steps an invocation at s can still take, at most
Rank(s, maxIter) ==
    CASE s.pc = "start" -> 2 * maxIter + 6
      [] s.pc = "evalLeft" -> 2 * maxIter + 5
      [] s.pc = "evalRoot" -> 2 * maxIter + 4
      [] s.pc = "evalRigth" -> 2 * maxIter + 3
      [] s.pc = "loop" -> 2 * (maxIter - s.iter) + 2
      [] s.pc = "evalMid" -> 2 * (maxIter - s.iter) + 1
      [] s.pc = "confirm" -> 1
      [] OTHER -> 0

\* C6: an invocation never makes more than 3 + MaxIteration + 1 calls of the
\* evaluator, and it returns after finitely many steps: until it has returned
\* it can take a step, and every step lowers Rank, which is never negative.
C6_BoundedWork ==
    /\ [](\A p \in DOMAIN inv :
            /\ Len(inv[p].calls) <= 3 + MaxIteration + 1
            /\ Rank(inv[p], MaxIteration) >= 0
            /\ ~Done(p) => ENABLED Step(p))
    /\ [][\A p \in DOMAIN inv :
            inv'[p] # inv[p] =>
                Rank(inv'[p], MaxIteration') < Rank(inv[p], MaxIteration)]_vars

\* the most calls an invocation makes: three initial ones, a midpoint in
\* every iteration but the last permitted one, where the search converges,
\* and the confirmatory one
C6_Witness ==
    /\ Done(1) /\ MaxIteration >= 2 /\ inv[1].ret = "converged"
    /\ inv[1].iter = MaxIteration - 1
    /\ Len(inv[1].calls) = 3 + inv[1].iter + 1

\* every call returned a finite number
AllFinite(s) == \A i \in 1..Len(s.calls) :
    ~s.calls[i].out.fail /\ ~s.calls[i].out.panic /\ s.calls[i].out.y.kind = "num"

C8_OrderIndependent ==
    (order = "swapped" /\ Done(1) /\ Done(2)) =>
        /\ inv[1].a = inv[2].b /\ inv[1].b = inv[2].a
        /\ inv[1].calls = inv[2].calls
        /\ inv[1].err = inv[2].err
        /\ inv[1].root = inv[2].root

\* distinct bounds, a root found in the loop by both calls
C8_Witness ==
    /\ order = "swapped" /\ Done(1) /\ Done(2)
    /\ inv[1].a # inv[1].b
    /\ inv[2].err = NilErr /\ inv[2].ret = "converged" /\ inv[2].iter >= 1

\* C9 as stated: every non-nil error Find returns is an ErrorFind with one of
\* the four kinds.
C9_EveryErrorClassified ==
    \A p \in DOMAIN inv :
        LET s == inv[p] IN
        (Done(p) /\ s.err # NilErr) =>
            s.err.cls = "ErrorFind" /\ s.err.Type \in ErrType

\* C10: when Find returns a nil error its last call of the evaluator was at
\* the returned root; a failure of that confirmatory call is Find's error;
\* after the return nothing of the invocation changes, so no call follows.
C10_LastCallAtRoot ==
    /\ [](\A p \in DOMAIN inv :
            LET s == inv[p] IN
            /\ (Done(p) /\ s.err = NilErr) =>
                 /\ s.ret \in {"left", "rigth", "converged"}
                 /\ Len(s.calls) >= 4
                 /\ Last(s.calls).x = s.root
                 /\ ~Last(s.calls).out.fail /\ ~Last(s.calls).out.panic
            /\ (Done(p) /\ s.ret \in {"left", "rigth", "converged"}) =>
                 /\ Last(s.calls).x = s.root
                 /\ Last(s.calls).out.fail => s.err # NilErr)
    /\ [][\A p \in DOMAIN inv : Done(p) => inv'[p] = inv[p]]_vars

\* the confirmatory call at a root found in the loop failed
C10_Witness ==
    LET s == inv[1] IN
    /\ Done(1) /\ s.ret = "converged" /\ s.iter >= 1
    /\ Last(s.calls).x = s.root /\ Last(s.calls).out.fail
    /\ s.err = EvalErr

\* the x of the calls made so far
Xs(s) == [i \in 1..Len(s.calls) |-> s.calls[i].x]
\* the calls of an endpoint exit at x: left, midpoint, right, then x again
ExitCalls(s, x) == <<Lo(s), middle(Lo(s), Hi(s)), Hi(s), x>>
\* Find goes from the initial evaluations to the confirmatory call at x and
\* returns x: no loop iteration, four calls when it has returned
ExitsAt(s, x, where) ==
    /\ s.pc \in {"confirm", "done"} /\ s.iter = 0
    /\ s.ret \in {where, "recover"}
    /\ s.root = x
    /\ Xs(s) = SubSeq(ExitCalls(s, x), 1, Len(s.calls))
    /\ s.pc = "done" => Len(s.calls) = 4
    /\ (s.pc = "done" /\ ~Last(s.calls).out.fail /\ ~Last(s.calls).out.panic)
          => s.err = NilErr

\* C11: when the three initial evaluations return values and the value at the
\* normalized left endpoint is below Precision, Find returns that endpoint
\* after exactly four calls (left, midpoint, right, left again) and never
\* enters the loop; otherwise, when the value at the right endpoint is below
\* Precision, it returns the right endpoint the same way.
C11_EndpointExit ==
    \A p \in DOMAIN inv :
        LET s == inv[p] IN
        Sampled(s) =>
            /\ AbsLessPrec(Y0(s, 1)) => ExitsAt(s, Lo(s), "left")
            /\ (~AbsLessPrec(Y0(s, 1)) /\ AbsLessPrec(Y0(s, 3)))
                  => ExitsAt(s, Hi(s), "rigth")

\* both endpoint values are below Precision and the left endpoint is returned
C11_Witness ==
    LET s == inv[1] IN
    /\ Done(1) /\ Sampled(s) /\ Lo(s) < Hi(s)
    /\ AbsLessPrec(Y0(s, 1)) /\ AbsLessPrec(Y0(s, 3))
    /\ s.err = NilErr /\ s.root = Lo(s) /\ Len(s.calls) = 4

\* every outcome the pure evaluator has given is a value, not an error or panic
NeverFailed == \A x \in DOMAIN fmemo : ~fmemo[x].fail /\ ~fmemo[x].panic

\* C13 as stated: with a pure, never-failing evaluator Find returns "No root"
\* only when the evaluator's values at the current xLeft, xRoot and xRigth
\* all have the same sign bit.
C13_NoRootOnlyWhenLost ==
    \A p \in DOMAIN inv :
        LET s == inv[p] IN
        (pure /\ NeverFailed /\ s.ret = "noRoot") =>
            /\ Signbit(fmemo[s.xLeft].y) = Signbit(fmemo[s.xRoot].y)
            /\ Signbit(fmemo[s.xRoot].y) = Signbit(fmemo[s.xRigth].y)

\* C14 as stated, for the last midpoint evaluated: Find returns
\* ErrorFind{MaximalIteration} only when that midpoint does not pass the
\* convergence test against its bracket.
C14_CapOnlyWithoutConvergence ==
    \A p \in DOMAIN inv :
        LET s == inv[p] IN
        s.ret = "tooMany" => ~Converged(s)

\* C15 as stated: once a call of the evaluator has returned an error, the
\* invocation makes no further call: only its last call can have failed.
C15_FailureIsLastCall ==
    \A p \in DOMAIN inv :
        LET s == inv[p] IN
        \A i \in 1..(Len(s.calls) - 1) : ~s.calls[i].out.fail

\* C16 as stated: a NaN or infinite midpoint value is never used: when Find
\* is at the head of a loop iteration that will test and compare yRoot, the
\* value is a finite number.
C16_GuardBeforeUse ==
    \A p \in DOMAIN inv :
        LET s == inv[p] IN
        (s.pc = "loop" /\ ~tooMany(s.iter, MaxIteration)) =>
            ~IsNaN(s.yRoot) /\ ~IsInf(s.yRoot)

\* the x of the next call of the evaluator by an invocation at s
callAt(s) ==
    CASE s.pc = "evalLeft" -> s.xLeft
      [] s.pc = "evalRigth" -> s.xRigth
      [] s.pc = "confirm" -> s.root
      [] OTHER -> s.xRoot

\* the invocation at s after its next step, run alone with the evaluator f
\* (a function from x to outcomes); where f is not known the run stops as "lost"
stepAlone(s, f) ==
    IF s.pc = "start" THEN prepare(s)
    ELSE IF s.pc = "loop" THEN iteration(s, MaxIteration)
    ELSE IF callAt(s) \notin DOMAIN f THEN [s EXCEPT !.pc = "done", !.ret = "lost"]
    ELSE LET o == f[callAt(s)]
             c == called(s, callAt(s), o)
         IN  IF o.panic THEN recover(c)
             ELSE CASE s.pc = "evalLeft" ->
                         [c EXCEPT !.yLeft = o.y, !.errLeft = errOf(o), !.pc = "evalRoot"]
                    [] s.pc = "evalRoot" ->
                         [c EXCEPT !.yRoot = o.y, !.errRoot = errOf(o), !.pc = "evalRigth"]
                    [] s.pc = "evalRigth" ->
                         checkErrors([c EXCEPT !.yRigth = o.y, !.errRigth = errOf(o)])
                    [] s.pc = "evalMid" -> midpoint(c, o)
                    [] OTHER -> confirm(c, o)

RECURSIVE runAlone(_, _)
\* Find run alone from s to its return
runAlone(s, f) == IF s.pc = "done" THEN s ELSE runAlone(stepAlone(s, f), f)

\* C12: two invocations run in parallel with one pure evaluator: under every
\* interleaving each returns what it returns when run alone (same calls, same
\* root, same error); no step writes MaxIteration and every step changes the
\* locals of one invocation only.
C12_ParallelAsAlone ==
    /\ [](\A p \in DOMAIN inv :
            Done(p) => inv[p] = runAlone(Entry(inv[p].a, inv[p].b), fmemo))
    /\ [][/\ MaxIteration' = MaxIteration
          /\ \E p \in DOMAIN inv :
                \A q \in DOMAIN inv \ {p} : inv'[q] = inv[q]]_vars

\* two invocations over different bounds have both iterated and returned,
\* their last midpoints apart
C12_Witness ==
    /\ order = "parallel" /\ Done(1) /\ Done(2)
    /\ Lo(inv[1]) # Lo(inv[2])
    /\ inv[1].iter >= 1 /\ inv[2].iter >= 1
    /\ inv[1].xRoot # inv[2].xRoot
====
